---- MODULE Spec2Model ----
(***************************************************************************)
(* SRT Subtitle Importer/Exporter for the Blender video sequence editor.   *)
(*                                                                         *)
(* The module models the two operators of src/__init__.py, the import of   *)
(* an .srt file into text strips and the export of the selected text       *)
(* strips to an .srt file, together with the time-code helpers they use.   *)
(*                                                                         *)
(* Python floats are IEEE 754 binary64 values.  They are modelled exactly: *)
(* a float is a sign, an integer part and a binary fraction held in limbs, *)
(* and every arithmetic step of the source is the exact result rounded to  *)
(* 53 significant bits, ties to even.  Frame rates are whole numbers of    *)
(* frames per second (scene.render.fps with fps_base at its default 1.0,   *)
(* or a whole custom_fps).                                                 *)
(***************************************************************************)
EXTENDS Integers, Sequences, FiniteSets, TLC

(***************************************************************************)
(* IEEE 754 binary64                                                       *)
(***************************************************************************)

\* Significant bits of a Python float.
MantissaBits == 53

\* The fraction of a float is held in NLimbs limbs of LimbBits bits each,
\* most significant limb first.
LimbBits == 15

Base == 32768

NLimbs == 5

FracBits == NLimbs * LimbBits

ZeroFrac == [k \in 1..NLimbs |-> 0]

RECURSIVE Pow2(_)
Pow2(n) == IF n = 0 THEN 1 ELSE 2 * Pow2(n - 1)

RECURSIVE BitLen(_)
BitLen(n) == IF n = 0 THEN 0 ELSE 1 + BitLen(n \div 2)

Abs(n) == IF n < 0 THEN -n ELSE n

Sign(n) == IF n < 0 THEN -1 ELSE 1

\* A float: sign s, integer part i of the magnitude, fraction f of the magnitude.
Flt(s, i, f) == [s |-> s, i |-> i, f |-> f]

IsZero(x) == x.i = 0 /\ x.f = ZeroFrac

\* float(n) of an int n.
FromInt(n) == Flt(Sign(n), Abs(n), ZeroFrac)

\* Index of the first non-zero limb of f (NLimbs + 1 if there is none).
RECURSIVE FirstLimb(_, _)
FirstLimb(f, k) ==
    IF k > NLimbs THEN k
    ELSE IF f[k] # 0 THEN k
    ELSE FirstLimb(f, k + 1)

\* TRUE iff the limbs k..NLimbs of f are all zero.
RECURSIVE LowZero(_, _)
LowZero(f, k) == IF k > NLimbs THEN TRUE ELSE f[k] = 0 /\ LowZero(f, k + 1)

\* f with its limbs k..NLimbs cleared.
ClearLow(f, k) == [j \in 1..NLimbs |-> IF j >= k THEN 0 ELSE f[j]]

\* <<i, f>> plus u units of limb k, the carry running up into the integer part.
RECURSIVE AddAt(_, _, _, _)
AddAt(i, f, k, u) ==
    IF u = 0 THEN <<i, f>>
    ELSE IF k = 0 THEN <<i + u, f>>
    ELSE LET v == f[k] + u
         IN  AddAt(i, [f EXCEPT ![k] = v % Base], k - 1, v \div Base)

\* The number of fraction bits a float of magnitude i + f keeps.
KeptBits(i, f) ==
    IF i > 0 THEN MantissaBits - BitLen(i)
    ELSE LET j == FirstLimb(f, 1)
         IN  (j - 1) * LimbBits + (LimbBits - BitLen(f[j])) + MantissaBits

\* Round to nearest, ties to even: the float nearest to s * (i + f + a bit more
\* if sticky), where sticky says that the exact value has non-zero bits below f.
Round(s, i, f, sticky) ==
    IF i = 0 /\ f = ZeroFrac THEN Flt(1, 0, ZeroFrac)
    ELSE
    LET t == FracBits - KeptBits(i, f)
    IN  IF t <= 0
        THEN IF sticky THEN CHOOSE x \in {} : TRUE ELSE Flt(s, i, f)
        ELSE
        LET r     == t % LimbBits
            j     == NLimbs - (t \div LimbBits)
            unit  == Pow2(r)
            top   == IF r > 0 THEN f[j] % unit ELSE f[j + 1]
            half  == IF r > 0 THEN unit \div 2 ELSE Base \div 2
            lowz  == ~sticky /\ LowZero(f, IF r > 0 THEN j + 1 ELSE j + 2)
            odd   == (f[j] \div unit) % 2 = 1
            up    == top > half \/ (top = half /\ (~lowz \/ odd))
            kept  == [ClearLow(f, j + 1) EXCEPT ![j] = f[j] - (f[j] % unit)]
            res   == AddAt(i, kept, j, IF up THEN unit ELSE 0)
        IN  Flt(s, res[1], res[2])

\* <<carry, f * c>>: the fraction f times the small whole number c.
RECURSIVE MulLimbs(_, _, _, _)
MulLimbs(f, c, k, carry) ==
    IF k = 0 THEN <<carry, f>>
    ELSE LET v == f[k] * c + carry
         IN  MulLimbs([f EXCEPT ![k] = v % Base], c, k - 1, v \div Base)

\* <<f, rem>>: the first FracBits bits of r / d for r < d, and what is left.
RECURSIVE DivLimbs(_, _, _, _)
DivLimbs(r, d, k, f) ==
    IF k > NLimbs THEN <<f, r>>
    ELSE LET v == r * Base
         IN  DivLimbs(v % d, d, k + 1, [f EXCEPT ![k] = v \div d])

\* 2^FracBits - f for f # 0: the fraction of 1 - f.
RECURSIVE Complement(_, _, _)
Complement(f, k, borrow) ==
    IF k = 0 THEN f
    ELSE LET v == (Base - 1 - f[k]) + borrow
         IN  Complement([f EXCEPT ![k] = v % Base], k - 1, v \div Base)

\* float(n) / float(d) for whole n and d > 0.
DivInt(n, d) ==
    LET q == DivLimbs(Abs(n) % d, d, 1, ZeroFrac)
    IN  Round(Sign(n), Abs(n) \div d, q[1], q[2] # 0)

\* x * float(c) for a whole c > 0.
MulInt(x, c) ==
    LET p == MulLimbs(x.f, c, NLimbs, 0)
    IN  Round(x.s, x.i * c + p[1], p[2], FALSE)

\* float(a) + x for a whole a.
AddInt(a, x) ==
    IF a = 0 \/ IsZero(x) \/ Sign(a) = x.s
    THEN Round(IF IsZero(x) THEN Sign(a) ELSE x.s, Abs(a) + x.i, x.f, FALSE)
    ELSE IF x.f = ZeroFrac
    THEN FromInt(a + x.s * x.i)
    ELSE IF Abs(a) > x.i
    THEN Round(Sign(a), Abs(a) - x.i - 1, Complement(x.f, NLimbs, 1), FALSE)
    ELSE Round(x.s, x.i - Abs(a), x.f, FALSE)

\* int(x): truncation toward zero.
Trunc(x) == x.s * x.i

\* x - int(x) for x >= 0.
FracPart(x) == Flt(1, 0, x.f)

\* x % m for a whole m > 0 (float_rem: fmod, then + m when the signs differ).
Mod(x, m) ==
    LET r == Flt(x.s, x.i % m, x.f)
    IN  IF IsZero(r) THEN Flt(1, 0, ZeroFrac)
        ELSE IF x.s < 0 THEN AddInt(m, r)
        ELSE r

\* x // m for a whole m > 0 (float_floor_div).
FloorDiv(x, m) ==
    LET r == Flt(x.s, x.i % m, x.f)
    IN  IF x.s < 0 /\ ~IsZero(r) THEN FromInt(-(x.i \div m) - 1)
        ELSE FromInt(x.s * (x.i \div m))

(***************************************************************************)
(* Text: a string is a sequence of one-character strings.                  *)
(***************************************************************************)

Digits == <<"0", "1", "2", "3", "4", "5", "6", "7", "8", "9">>

DigitSet == {Digits[k] : k \in 1..10}

DigitVal(c) == (CHOOSE k \in 1..10 : Digits[k] = c) - 1

\* str(n) for n >= 0.
RECURSIVE NatStr(_)
NatStr(n) == IF n < 10 THEN <<Digits[n + 1]>>
             ELSE Append(NatStr(n \div 10), Digits[(n % 10) + 1])

\* str(n).
IntStr(n) == IF n < 0 THEN <<"-">> \o NatStr(-n) ELSE NatStr(n)

\* f"{n:0wd}": str(n) padded with zeros to the width w, the sign first.
RECURSIVE ZeroPad(_, _)
ZeroPad(str, w) == IF Len(str) >= w THEN str ELSE ZeroPad(<<"0">> \o str, w)

FormatInt(n, w) ==
    IF n < 0 THEN <<"-">> \o ZeroPad(NatStr(-n), w - 1) ELSE ZeroPad(NatStr(n), w)

\* The whole number a string of digits spells.
RECURSIVE DigitsVal(_)
DigitsVal(str) ==
    IF str = <<>> THEN 0
    ELSE 10 * DigitsVal(SubSeq(str, 1, Len(str) - 1)) + DigitVal(str[Len(str)])

\* int(str) for an optional "-" and digits.
ParseInt(str) ==
    IF str # <<>> /\ str[1] = "-" THEN -DigitsVal(Tail(str)) ELSE DigitsVal(str)

\* Position of the first c in str at or after k (Len(str) + 1 if there is none).
RECURSIVE Find(_, _, _)
Find(str, c, k) ==
    IF k > Len(str) THEN k
    ELSE IF str[k] = c THEN k
    ELSE Find(str, c, k + 1)

RECURSIVE Pow10(_)
Pow10(n) == IF n = 0 THEN 1 ELSE 10 * Pow10(n - 1)

\* float(str) for str = digits "." digits, the point written as sep.
ParseFloat(str, sep) ==
    LET p    == Find(str, sep, 1)
        int  == SubSeq(str, 1, p - 1)
        frac == SubSeq(str, p + 1, Len(str))
    IN  DivInt(DigitsVal(int \o frac), Pow10(Len(frac)))

(***************************************************************************)
(* SRT time format: 00:00:00,000                                           *)
(***************************************************************************)

\* Convert SRT time format to seconds.
parse_srt_time(time_str) ==
    LET c1      == Find(time_str, ":", 1)
        c2      == Find(time_str, ":", c1 + 1)
        hours   == SubSeq(time_str, 1, c1 - 1)
        minutes == SubSeq(time_str, c1 + 1, c2 - 1)
        seconds == SubSeq(time_str, c2 + 1, Len(time_str))
    IN  AddInt(ParseInt(hours) * 3600 + ParseInt(minutes) * 60,
               ParseFloat(seconds, ","))

\* Convert seconds to SRT time format.
format_srt_time(seconds) ==
    LET hours        == Trunc(FloorDiv(seconds, 3600))
        minutes      == Trunc(FloorDiv(Mod(seconds, 3600), 60))
        secs         == Mod(seconds, 60)
        milliseconds == Trunc(MulInt(FracPart(secs), 1000))
    IN  FormatInt(hours, 2) \o <<":">> \o FormatInt(minutes, 2) \o <<":">>
          \o FormatInt(Trunc(secs), 2) \o <<",">> \o FormatInt(milliseconds, 3)

(***************************************************************************)
(* The cue pattern of the import,                                          *)
(*   (\d+)\n(\d{2}:\d{2}:\d{2},\d{3}) --> (\d{2}:\d{2}:\d{2},\d{3})\n      *)
(*   ([\s\S]*?)(?=\n\n\d+\n|$)                                             *)
(* and re.findall over it.  Positions are 1-based.                         *)
(***************************************************************************)

At(str, k) == IF k >= 1 /\ k <= Len(str) THEN str[k] ELSE ""

IsDigit(c) == c \in DigitSet

\* str has the literal lit at position k.
HasAt(str, k, lit) == \A j \in 1..Len(lit) : At(str, k + j - 1) = lit[j]

\* First position at or after k that holds no digit: the end of \d+ from k.
RECURSIVE DigitRunEnd(_, _)
DigitRunEnd(str, k) == IF IsDigit(At(str, k)) THEN DigitRunEnd(str, k + 1) ELSE k

\* \d{2}:\d{2}:\d{2},\d{3} at position k.
MatchTime(str, k) ==
    /\ \A j \in {0, 1, 3, 4, 6, 7, 9, 10, 11} : IsDigit(At(str, k + j))
    /\ At(str, k + 2) = ":"
    /\ At(str, k + 5) = ":"
    /\ At(str, k + 8) = ","

TimeLen == 12

Arrow == <<" ", "-", "-", ">", " ">>

\* (?=\n\n\d+\n|$) at position k; $ is the end of the string or the place
\* before a newline that ends the string.
Lookahead(str, k) ==
    \/ k = Len(str) + 1
    \/ k = Len(str) /\ str[k] = "\n"
    \/ /\ At(str, k) = "\n"
       /\ At(str, k + 1) = "\n"
       /\ DigitRunEnd(str, k + 2) > k + 2
       /\ At(str, DigitRunEnd(str, k + 2)) = "\n"

Min(S) == CHOOSE x \in S : \A y \in S : x <= y

\* [\s\S]*? from position k: the first place at or after k where the lookahead holds.
TextEnd(str, k) == Min({e \in k..(Len(str) + 1) : Lookahead(str, e)})

\* The pattern tried at position k: the position of group 4, or 0 if the
\* pattern does not match at k.
MatchHead(str, k) ==
    LET q  == DigitRunEnd(str, k)
        t1 == q + 1
        t2 == t1 + TimeLen + Len(Arrow)
    IN  IF /\ q > k
           /\ At(str, q) = "\n"
           /\ MatchTime(str, t1)
           /\ HasAt(str, t1 + TimeLen, Arrow)
           /\ MatchTime(str, t2)
           /\ At(str, t2 + TimeLen) = "\n"
        THEN t2 + TimeLen + 1
        ELSE 0

\* re.findall(pattern, str) from position k on: the groups
\* <<index, start time, end time, text>> of each match, left to right.  The
\* scan goes on from the end of a match (one further if the match is empty).
RECURSIVE FindAll(_, _)
FindAll(str, k) ==
    LET heads == {p \in k..Len(str) : MatchHead(str, p) # 0}
    IN  IF heads = {} THEN <<>>
        ELSE LET p == Min(heads)
                 q == DigitRunEnd(str, p)
                 g == MatchHead(str, p)
                 e == TextEnd(str, g)
             IN  << <<SubSeq(str, p, q - 1),
                      SubSeq(str, q + 1, q + TimeLen),
                      SubSeq(str, q + 1 + TimeLen + Len(Arrow),
                                  q + 2 * TimeLen + Len(Arrow)),
                      SubSeq(str, g, e - 1)>> >>
                 \o FindAll(str, IF e > p THEN e ELSE p + 1)

\* str.strip(): leading and trailing whitespace removed.
Whitespace == {" ", "\n", "\t", "\r"}

RECURSIVE LStrip(_)
LStrip(str) ==
    IF str # <<>> /\ str[1] \in Whitespace THEN LStrip(Tail(str)) ELSE str

RECURSIVE RStrip(_)
RStrip(str) ==
    IF str # <<>> /\ str[Len(str)] \in Whitespace
    THEN RStrip(SubSeq(str, 1, Len(str) - 1))
    ELSE str

StrStrip(str) == RStrip(LStrip(str))

(***************************************************************************)
(* The scene, the file and the two operators.                              *)
(***************************************************************************)

VARIABLES
    scene_fps,        \* scene.render.fps (fps_base is 1.0)
    file,             \* the .srt file at self.filepath: [exists, text]
    sequence_editor,  \* TRUE iff scene.sequence_editor is not None
    sequences,        \* seq_editor.sequences: the strips, in creation order
    call,             \* the operator call that ran last, with what it returned
    ncalls,           \* the number of operator calls so far
    last_import,      \* the last import that finished
    last_export,      \* the last export that finished
    probe             \* a call of a time-code helper on its own, with its result

vars == <<scene_fps, file, sequence_editor, sequences, call, ncalls,
          last_import, last_export, probe>>

\* Frame rates of the scene and of the custom_fps property.
FpsSet == {24}

CustomFps == {25}

\* Values of the start_frame property: its default 1, and a negative one.
StartFrames == {1, -30}

\* subtitle_channel: default=1, min=1, max=32.
Channels == {1}

\* The most strips the timeline holds.
MaxStrips == 3

\* The most blocks of a file the user saves.
MaxBlocks == 2

\* The most operator calls of a session on a saved file.
MaxCalls == 3

\* The most exports of a session on a timeline made by hand.
MaxExports == 2

(***************************************************************************)
(* The files a user saves: blocks of four kinds.  "ok" is a well-formed    *)
(* cue block; "badtime" writes the start time with a point for the comma;  *)
(* "badindex" has a letter for its index line; "notext" has no text line.  *)
(***************************************************************************)

\* The well-formed blocks: cue times <<start, end>> in milliseconds, and a text
\* of one line or of two.
Cues == {<<83, 1001>>, <<1160, 2500>>}

TextOf(cue) == IF cue[1] = 83 THEN <<"a">> ELSE <<"b", "\n", "c">>

\* HH:MM:SS<sep>mmm of a whole number of milliseconds.
TimeCode(ms, sep) ==
    FormatInt(ms \div 3600000, 2) \o <<":">> \o FormatInt((ms \div 60000) % 60, 2)
      \o <<":">> \o FormatInt((ms \div 1000) % 60, 2) \o <<sep>>
      \o FormatInt(ms % 1000, 3)

Block(kind, cue, text) == [kind |-> kind, cue |-> cue, text |-> text]

OkBlocks == {Block("ok", c, TextOf(c)) : c \in Cues}

BadBlocks == {Block(k, <<1160, 2500>>, <<"a">>) : k \in {"badtime", "badindex", "notext"}}

\* The text of block b written as the k-th block of a file.
RenderBlock(b, k) ==
    (IF b.kind = "badindex" THEN <<"x">> ELSE NatStr(k)) \o <<"\n">>
      \o TimeCode(b.cue[1], IF b.kind = "badtime" THEN "." ELSE ",")
      \o Arrow \o TimeCode(b.cue[2], ",") \o <<"\n">>
      \o (IF b.kind = "notext" THEN <<>> ELSE b.text \o <<"\n">>)
      \o <<"\n">>

RECURSIVE Render(_, _)
Render(bs, k) ==
    IF k > Len(bs) THEN <<>> ELSE RenderBlock(bs[k], k) \o Render(bs, k + 1)

RECURSIVE SeqsUpTo(_, _)
SeqsUpTo(S, n) ==
    IF n = 0 THEN {<<>>}
    ELSE LET R == SeqsUpTo(S, n - 1)
         IN  R \cup {Append(r, x) : r \in {q \in R : Len(q) = n - 1}, x \in S}

\* Other things a user may save: nothing at all, or only white space.
Blank == {<<>>, <<"\n">>, <<" ", "\n", "\n">>}

Docs == {Render(bs, 1) : bs \in SeqsUpTo(OkBlocks \cup BadBlocks, MaxBlocks)} \cup Blank

NoFile == [exists |-> FALSE, text |-> <<>>]

Idle ==
    [op |-> "none", status |-> "", level |-> "", message |-> "", fps |-> 0,
     start_frame |-> 0, content |-> <<>>, matches |-> <<>>, first |-> 0,
     written |-> <<>>]

NoProbe == [fn |-> "none", arg |-> <<>>, out |-> <<>>]

Init ==
    /\ scene_fps \in FpsSet
    /\ file = NoFile
    /\ sequence_editor = FALSE
    /\ sequences = <<>>
    /\ call = Idle
    /\ ncalls = 0
    /\ last_import = Idle
    /\ last_export = Idle
    /\ probe = NoProbe

\* Get scene FPS.
get_scene_fps == scene_fps

\* Convert seconds to frames (import).
seconds_to_frame(sec, fps, start_frame) == Trunc(AddInt(start_frame, MulInt(sec, fps)))

\* Start time of a strip in seconds (export).
frame_to_seconds(frame_start, fps) == DivInt(frame_start - 1, fps)

\* End time of a strip in seconds (export).
final_end_to_seconds(frame_final_end, fps) == DivInt(frame_final_end, fps)

\* The text strip the import creates for one match.
NewTextStrip(m, fps, start_frame, channel) ==
    LET start_sec == parse_srt_time(m[2])
        end_sec   == parse_srt_time(m[3])
        start     == seconds_to_frame(start_sec, fps, start_frame)
        end       == seconds_to_frame(end_sec, fps, start_frame)
        duration  == end - start
    IN  [name            |-> <<"S", "u", "b", "t", "i", "t", "l", "e", " ">> \o m[1],
         type            |-> "TEXT",
         channel         |-> channel,
         frame_start     |-> start,
         frame_final_end |-> start + duration,
         text            |-> StrStrip(m[4]),
         select          |-> TRUE]

NewTextStrips(matches, fps, start_frame, channel) ==
    [k \in 1..Len(matches) |-> NewTextStrip(matches[k], fps, start_frame, channel)]

\* The user saves an .srt file.
SaveSRT(doc) ==
    /\ ncalls < MaxCalls
    /\ ~file.exists
    /\ file' = [exists |-> TRUE, text |-> doc]
    /\ call' = Idle
    /\ UNCHANGED <<scene_fps, sequence_editor, sequences, ncalls, last_import, last_export, probe>>

\* The user adds a strip by hand: a text strip or a strip of another type.
AddStrip(type, frame_start) ==
    /\ ncalls < MaxExports
    /\ Len(sequences) < MaxStrips
    /\ sequence_editor' = TRUE
    /\ sequences' = Append(sequences,
          [name |-> <<"n">>, type |-> type, channel |-> 1,
           frame_start |-> frame_start, frame_final_end |-> frame_start + 25,
           text |-> <<"t">>, select |-> TRUE])
    /\ call' = Idle
    /\ UNCHANGED <<scene_fps, file, ncalls, last_import, last_export, probe>>

\* The user selects or deselects strip k.
ToggleSelect(k) ==
    /\ ncalls < MaxCalls
    /\ k \in 1..Len(sequences)
    /\ sequences' = [sequences EXCEPT ![k].select = ~@]
    /\ call' = Idle
    /\ UNCHANGED <<scene_fps, file, sequence_editor, ncalls, last_import, last_export, probe>>

\* An import without the test for an empty list of matches.
NoSubtitlesNever(matches) == FALSE

\* if not matches:
NoSubtitles(matches) == matches = <<>>

\* SEQUENCER_OT_ImportSRT.execute
ImportSRT_execute(use_scene_fps, custom_fps, start_frame, subtitle_channel) ==
    LET fps     == IF use_scene_fps THEN get_scene_fps ELSE custom_fps
        content == file.text
        matches == FindAll(content, 1)
        done(status, level, message) ==
            [op |-> "import", status |-> status, level |-> level,
             message |-> message, fps |-> fps, start_frame |-> start_frame,
             content |-> content, matches |-> matches,
             first |-> Len(sequences) + 1, written |-> <<>>]
    IN  /\ ncalls < MaxCalls
        /\ ncalls' = ncalls + 1
        /\ UNCHANGED <<scene_fps, file, last_export, probe>>
        /\ IF ~file.exists
           THEN \* open() raises; the except clause reports it
                /\ call' = [done("CANCELLED", "ERROR", "Error importing SRT")
                               EXCEPT !.matches = <<>>]
                /\ UNCHANGED <<sequence_editor, sequences, last_import>>
           ELSE IF NoSubtitles(matches)
           THEN /\ call' = done("CANCELLED", "ERROR", "No subtitles found in the SRT file")
                /\ UNCHANGED <<sequence_editor, sequences, last_import>>
           ELSE /\ Len(sequences) + Len(matches) <= MaxStrips
                /\ sequence_editor' = TRUE
                /\ sequences' = sequences
                      \o NewTextStrips(matches, fps, start_frame, subtitle_channel)
                /\ call' = done("FINISHED", "INFO", "Success")
                /\ last_import' = call'

\* A sort that puts a strip before the strips placed earlier that start at the
\* same frame.
RECURSIVE SortByStartUnstable(_)
SortByStartUnstable(ks) ==
    IF ks = <<>> THEN <<>>
    ELSE LET rest == SortByStartUnstable(SubSeq(ks, 1, Len(ks) - 1))
             k    == ks[Len(ks)]
             n    == Cardinality({j \in 1..Len(rest) :
                        sequences[rest[j]].frame_start < sequences[k].frame_start})
         IN  SubSeq(rest, 1, n) \o <<k>> \o SubSeq(rest, n + 1, Len(rest))

\* The selected text strips, sorted by start frame: list.sort is stable, a
\* strip goes after the strips already placed that start no later.
RECURSIVE SortByStart(_)
SortByStart(ks) ==
    IF ks = <<>> THEN <<>>
    ELSE LET rest == SortByStart(SubSeq(ks, 1, Len(ks) - 1))
             k    == ks[Len(ks)]
             n    == Cardinality({j \in 1..Len(rest) :
                        sequences[rest[j]].frame_start <= sequences[k].frame_start})
         IN  SubSeq(rest, 1, n) \o <<k>> \o SubSeq(rest, n + 1, Len(rest))

\* The positions of the selected strips, whatever their type.
RECURSIVE SelectedAny(_)
SelectedAny(k) ==
    IF k > Len(sequences) THEN <<>>
    ELSE (IF sequences[k].select THEN <<k>> ELSE <<>>) \o SelectedAny(k + 1)

\* The positions in sequences of the selected strips of type TEXT, in order.
RECURSIVE SelectedText(_)
SelectedText(k) ==
    IF k > Len(sequences) THEN <<>>
    ELSE (IF sequences[k].select /\ sequences[k].type = "TEXT" THEN <<k>> ELSE <<>>)
           \o SelectedText(k + 1)

\* What the export writes for the i-th strip of the sorted selection.
Entry(i, k, fps) ==
    [index      |-> i,
     strip      |-> k,
     start_time |-> format_srt_time(frame_to_seconds(sequences[k].frame_start, fps)),
     end_time   |-> format_srt_time(final_end_to_seconds(sequences[k].frame_final_end, fps)),
     text       |-> sequences[k].text]

EntryText(e) ==
    IntStr(e.index) \o <<"\n">> \o e.start_time \o Arrow \o e.end_time \o <<"\n">>
      \o e.text \o <<"\n", "\n">>

RECURSIVE WriteAll(_, _)
WriteAll(es, i) == IF i > Len(es) THEN <<>> ELSE EntryText(es[i]) \o WriteAll(es, i + 1)

\* SEQUENCER_OT_ExportSRT.execute
ExportSRT_execute(use_scene_fps, custom_fps) ==
    LET fps             == IF use_scene_fps THEN get_scene_fps ELSE custom_fps
        selected_strips == SortByStart(SelectedText(1))
        written         == [i \in 1..Len(selected_strips) |->
                               Entry(i, selected_strips[i], fps)]
        done(status, level, message, es) ==
            [op |-> "export", status |-> status, level |-> level,
             message |-> message, fps |-> fps, start_frame |-> 0,
             content |-> <<>>, matches |-> <<>>, first |-> 0, written |-> es]
    IN  /\ ncalls < MaxCalls
        /\ ncalls' = ncalls + 1
        /\ UNCHANGED <<scene_fps, sequence_editor, sequences, last_import, probe>>
        /\ IF ~sequence_editor
           THEN /\ call' = done("CANCELLED", "ERROR", "No sequence editor found", <<>>)
                /\ UNCHANGED <<file, last_export>>
           ELSE IF selected_strips = <<>>
           THEN /\ call' = done("CANCELLED", "ERROR", "No text strips selected", <<>>)
                /\ UNCHANGED <<file, last_export>>
           ELSE /\ file' = [exists |-> TRUE, text |-> WriteAll(written, 1)]
                /\ call' = done("FINISHED", "INFO", "Success", written)
                /\ last_export' = call'

\* The start frames of the strips a user adds by hand.
StripStarts == {10, 30, 50}

\* A strip added by hand: a text strip at any of the starts, or a colour strip.
HandStrips == {<<"TEXT", f>> : f \in StripStarts} \cup {<<"COLOR", 10>>}

Import ==
    \E u \in BOOLEAN, c \in CustomFps, s \in StartFrames, ch \in Channels :
        ImportSRT_execute(u, c, s, ch)

Export == \E u \in BOOLEAN, c \in CustomFps : ExportSRT_execute(u, c)

Save == \E doc \in Docs : SaveSRT(doc)

Select == \E k \in 1..MaxStrips : ToggleSelect(k)

Add == \E h \in HandStrips : AddStrip(h[1], h[2])

\* An export at the scene's frame rate (use_scene_fps at its default).
ExportScene ==
    /\ ncalls < MaxExports
    /\ \E c \in CustomFps : ExportSRT_execute(TRUE, c)

\* A session on a saved file: imports and exports.
Next == Save \/ Select \/ Import \/ Export

Spec == Init /\ [][Next]_vars

\* A session on a timeline made by hand: exports.
NextTimeline == Add \/ (ncalls < MaxExports /\ Select) \/ ExportScene

SpecTimeline == Init /\ [][NextTimeline]_vars

\* A session of imports of a saved file.
NextImport == Save \/ Import

SpecImport == Init /\ [][NextImport]_vars

(***************************************************************************)
(* The time-code helpers and the two frame conversions on their own.       *)
(***************************************************************************)

ProbeFps == {24, 25, 30}

\* Frames 0..MaxProbeFrame and times of 0..MaxProbeMs milliseconds are tried.
MaxProbeFrame == 40

MaxProbeMs == 2100

\* The largest time of the SRT format, 99:59:59,999, in milliseconds.
MaxSrtMs == 100 * 3600 * 1000 - 1

\* Seconds given to format_srt_time: frame / fps quotients as the export
\* computes them, and whole milliseconds as float("SS.mmm") reads them.
ProbeSeconds ==
    {DivInt(k, fps) : k \in 0..MaxProbeFrame, fps \in ProbeFps}
      \cup {DivInt(n, 1000) : n \in 0..MaxProbeMs}
      \cup {DivInt(MaxSrtMs - n, 1000) : n \in 0..MaxProbeFrame}

ProbeOffsets == {1, 0, 10, -5}

\* format_srt_time(s), parse_srt_time of the result, and format_srt_time again.
ProbeTime(s) ==
    /\ probe = NoProbe
    /\ LET t == format_srt_time(s)
           b == parse_srt_time(t)
       IN  probe' = [fn |-> "time", arg |-> <<s>>, out |-> <<t, b, format_srt_time(b)>>]
    /\ UNCHANGED <<scene_fps, file, sequence_editor, sequences, call, ncalls,
                   last_import, last_export>>

\* A frame taken to seconds as the export does and back as the import does.
ProbeFrame(f, fps, offset) ==
    /\ probe = NoProbe
    /\ f >= offset
    /\ probe' = [fn |-> "frame", arg |-> <<f, fps, offset>>,
                 out |-> <<seconds_to_frame(frame_to_seconds(f, fps), fps, offset)>>]
    /\ UNCHANGED <<scene_fps, file, sequence_editor, sequences, call, ncalls,
                   last_import, last_export>>

Time == \E s \in ProbeSeconds : ProbeTime(s)

Frame ==
    \E f \in -5..MaxProbeFrame, fps \in ProbeFps, offset \in ProbeOffsets :
        ProbeFrame(f, fps, offset)

NextTime == Time \/ Frame

SpecTime == Init /\ [][NextTime]_vars

(***************************************************************************)
(* Properties.                                                             *)
(***************************************************************************)

\* Whole milliseconds of a time code HH:MM:SS,mmm.
Ms(time_str) ==
    LET c1 == Find(time_str, ":", 1)
        c2 == Find(time_str, ":", c1 + 1)
        c3 == Find(time_str, ",", c2 + 1)
    IN  ((DigitsVal(SubSeq(time_str, 1, c1 - 1)) * 60
            + DigitsVal(SubSeq(time_str, c1 + 1, c2 - 1))) * 60
            + DigitsVal(SubSeq(time_str, c2 + 1, c3 - 1))) * 1000
          + DigitsVal(SubSeq(time_str, c3 + 1, Len(time_str)))

\* a <= b for fractions, limb by limb from position k.
RECURSIVE LimbsLeq(_, _, _)
LimbsLeq(f, g, k) ==
    IF k > NLimbs THEN TRUE
    ELSE IF f[k] # g[k] THEN f[k] < g[k]
    ELSE LimbsLeq(f, g, k + 1)

\* a <= b for floats a, b >= 0.
FltLeq(a, b) == a.i < b.i \/ (a.i = b.i /\ LimbsLeq(a.f, b.f, 1))

\* <<borrow, f - g>> for fractions.
RECURSIVE SubLimbs(_, _, _, _)
SubLimbs(f, g, k, borrow) ==
    IF k = 0 THEN <<borrow, f>>
    ELSE LET v == f[k] - g[k] - borrow
         IN  SubLimbs([f EXCEPT ![k] = IF v < 0 THEN v + Base ELSE v], g, k - 1,
                      IF v < 0 THEN 1 ELSE 0)

\* |a - b| as a real number, for floats a, b >= 0: nothing is rounded.
AbsDiff(a, b) ==
    LET hi == IF FltLeq(a, b) THEN b ELSE a
        lo == IF FltLeq(a, b) THEN a ELSE b
        d  == SubLimbs(hi.f, lo.f, NLimbs, 0)
    IN  Flt(1, hi.i - lo.i - d[1], d[2])

\* |a - b| <= 1 / den as real numbers.
Within(a, b, den) ==
    LET d     == AbsDiff(a, b)
        p     == MulLimbs(d.f, den, NLimbs, 0)
        whole == d.i * den + p[1]
    IN  whole = 0 \/ (whole = 1 /\ p[2] = ZeroFrac)

AllBlockSeqs == SeqsUpTo(OkBlocks \cup BadBlocks, MaxBlocks)

\* The blocks a saved file was made of.
IsRendered(content) == \E bs \in AllBlockSeqs : Render(bs, 1) = content

BlocksOf(content) == CHOOSE bs \in AllBlockSeqs : Render(bs, 1) = content

\* The positions of the well-formed blocks of bs, in order.
RECURSIVE OkPositions(_, _)
OkPositions(bs, k) ==
    IF k > Len(bs) THEN <<>>
    ELSE (IF bs[k].kind = "ok" THEN <<k>> ELSE <<>>) \o OkPositions(bs, k + 1)

Range(sq) == {sq[k] : k \in 1..Len(sq)}

ImportRan == call.op = "import" /\ call.message # "Error importing SRT"

ImportFinished == call.op = "import" /\ call.status = "FINISHED"

ExportFinished == call.op = "export" /\ call.status = "FINISHED"

\* The strips the last call, an import, created.
Created == [j \in 1..Len(call.matches) |-> sequences[call.first + j - 1]]

\* C1. Import/export round trip: a file of well-formed blocks imported (at the
\* default start_frame) and then exported, exactly the created strips and with
\* the same fps, is written with each text unchanged and each start and end
\* time within 1/fps seconds of the original.
C1_RoundTrip ==
    (/\ ExportFinished
     /\ last_import.op = "import"
     /\ last_import.start_frame = 1
     /\ last_import.fps = call.fps
     /\ IsRendered(last_import.content)
     /\ \A b \in Range(BlocksOf(last_import.content)) : b.kind = "ok"
     /\ {e.strip : e \in Range(call.written)}
          = last_import.first..(last_import.first + Len(last_import.matches) - 1))
    => \A e \in Range(call.written) :
          LET b == BlocksOf(last_import.content)[e.strip - last_import.first + 1]
          IN  /\ e.text = b.text
              /\ Abs(Ms(e.start_time) - b.cue[1]) * call.fps <= 1000
              /\ Abs(Ms(e.end_time) - b.cue[2]) * call.fps <= 1000

\* C2. Time-code round trip: for every s in [0, 359999.999],
\* parse_srt_time(format_srt_time(s)) is within 1 millisecond of s, and for
\* the string t = format_srt_time(s), format_srt_time(parse_srt_time(t)) = t.
C2_TimeRoundTrip ==
    probe.fn = "time" =>
        /\ Within(probe.out[2], probe.arg[1], 1000)
        /\ probe.out[3] = probe.out[1]

\* C3. Parse count: of a file of N well-formed blocks with malformed blocks
\* among them the block scan yields exactly N entries, one for each well-formed
\* block, in document order, each with the index, the times and the text of its
\* own block only.
C3_ParseCount ==
    (ImportRan /\ IsRendered(call.content)) =>
        LET bs == BlocksOf(call.content)
            ok == OkPositions(bs, 1)
        IN  /\ Len(call.matches) = Len(ok)
            /\ \A j \in 1..Len(ok) :
                  LET m == call.matches[j]
                      b == bs[ok[j]]
                  IN  /\ m[1] = NatStr(ok[j])
                      /\ m[2] = TimeCode(b.cue[1], ",")
                      /\ m[3] = TimeCode(b.cue[2], ",")
                      /\ StrStrip(m[4]) = b.text

\* C4. Export ordering: the export writes the selected text strips, each once,
\* in ascending frame_start order, strips of equal frame_start in their order
\* in the selection, and numbers the blocks 1, 2, ..., n in that order.
C4_ExportOrder ==
    ExportFinished =>
        LET w     == call.written
            sel   == {k \in 1..Len(sequences) :
                         sequences[k].select /\ sequences[k].type = "TEXT"}
            lines == FindAll(file.text, 1)
        IN  /\ Len(w) = Cardinality(sel)
            /\ {w[i].strip : i \in 1..Len(w)} = sel
            /\ \A i \in 1..Len(w) : w[i].index = i
            /\ \A i, j \in 1..Len(w) :
                  i < j =>
                    \/ sequences[w[i].strip].frame_start < sequences[w[j].strip].frame_start
                    \/ /\ sequences[w[i].strip].frame_start = sequences[w[j].strip].frame_start
                       /\ w[i].strip < w[j].strip
            /\ Len(lines) = Len(w)
            /\ \A i \in 1..Len(w) :
                  /\ lines[i][1] = NatStr(i)
                  /\ lines[i][2] = w[i].start_time
                  /\ StrStrip(lines[i][4]) = sequences[w[i].strip].text

\* Three text strips with start frames 30, 10, 30 in selection order were
\* exported: the second strip first, then the first, then the third.
C4_Witness ==
    /\ ExportFinished
    /\ Len(call.written) = 3
    /\ [i \in 1..3 |-> call.written[i].strip] = <<2, 1, 3>>
    /\ sequences[1].frame_start = sequences[3].frame_start

\* C5. Frame/second inverse: a frame f >= offset taken to seconds by the export
\* conversion and back to a frame by the import conversion, with the same fps
\* and offset, is f again.
C5_FrameInverse ==
    probe.fn = "frame" => probe.out[1] = probe.arg[1]

\* The files without a cue block: empty, white space only, or made of blocks
\* whose time-code line or index line is malformed.
ZeroCueDocs ==
    Blank \cup {Render(bs, 1) :
                  bs \in SeqsUpTo({b \in BadBlocks : b.kind # "notext"}, MaxBlocks)}

\* C6. Empty input: an import of a file that is empty, white space only or
\* otherwise without a cue block ends CANCELLED with an error report, and
\* creates no strip and no sequence editor.
C6_EmptyInput ==
    [][(/\ ncalls' = ncalls + 1
        /\ call'.op = "import"
        /\ file.exists
        /\ file.text \in ZeroCueDocs)
       => (/\ call'.status = "CANCELLED"
           /\ call'.level = "ERROR"
           /\ sequences' = sequences
           /\ sequence_editor' = sequence_editor)]_vars

\* An import of a file of white space only was cancelled, and the scene still
\* has no sequence editor and no strip.
C6_Witness ==
    /\ call.op = "import"
    /\ call.status = "CANCELLED"
    /\ call.message = "No subtitles found in the SRT file"
    /\ call.content = <<" ", "\n", "\n">>
    /\ ~sequence_editor
    /\ sequences = <<>>

\* C7. No selection: an export with no selected strip of type TEXT ends
\* CANCELLED with an error report and leaves the destination file as it was:
\* not created if it did not exist, and not truncated or written if it did.
C7_NoSelection ==
    [][(/\ ncalls' = ncalls + 1
        /\ call'.op = "export"
        /\ \A k \in 1..Len(sequences) :
              ~(sequences[k].select /\ sequences[k].type = "TEXT"))
       => (/\ call'.status = "CANCELLED"
           /\ call'.level = "ERROR"
           /\ file' = file)]_vars

\* An export with only a strip of another type selected was cancelled after an
\* earlier export had written the file, and the file is still as written.
C7_Witness ==
    /\ call.op = "export"
    /\ call.status = "CANCELLED"
    /\ call.message = "No text strips selected"
    /\ \E k \in 1..Len(sequences) : sequences[k].select /\ sequences[k].type = "COLOR"
    /\ last_export.op = "export"
    /\ file.exists
    /\ file.text = WriteAll(last_export.written, 1)

\* C8. Import frame mapping: the import places the start and the end of every
\* cue at start_frame + floor(t * fps), t the cue time in seconds as parsed,
\* for every start_frame, negative ones included.  (t * fps >= 0, so its floor
\* is its integer part.)
C8_FrameMapping ==
    ImportFinished =>
        \A j \in 1..Len(call.matches) :
            /\ Created[j].frame_start
                 = call.start_frame
                     + Trunc(MulInt(parse_srt_time(call.matches[j][2]), call.fps))
            /\ Created[j].frame_final_end
                 = call.start_frame
                     + Trunc(MulInt(parse_srt_time(call.matches[j][3]), call.fps))

\* C9. Negative time rejection: format_srt_time fails on negative seconds, so
\* an export of a selected text strip with frame_start <= 0 fails and writes no
\* time-code line for that strip.
C9_NegativeRejected ==
    (/\ call.op = "export"
     /\ \E k \in 1..Len(sequences) :
           /\ sequences[k].select
           /\ sequences[k].type = "TEXT"
           /\ sequences[k].frame_start <= 0)
    => /\ call.status = "CANCELLED"
       /\ \A e \in Range(call.written) : sequences[e.strip].frame_start > 0

\* C10. Export/re-import frame stability: a text strip with frame_start f >= 1
\* exported, and the written file imported at the same fps with start_frame 1,
\* gives a strip whose frame_start is f.
C10_FrameStable ==
    (/\ ImportFinished
     /\ call.start_frame = 1
     /\ last_export.op = "export"
     /\ last_export.fps = call.fps
     /\ Len(last_export.written) = 1
     /\ call.content = WriteAll(last_export.written, 1)
     /\ sequences[last_export.written[1].strip].frame_start >= 1)
    => /\ Len(call.matches) = 1
       /\ Created[1].frame_start = sequences[last_export.written[1].strip].frame_start

====
